---- MODULE Spec2Model ----
(***************************************************************************)
(* Model of voice_website.py: the iteration loop of main(), the            *)
(* materializer save_website_files and the generator wrapper               *)
(* generate_website.  Text is a sequence of one-character strings, a site  *)
(* directory is a record (exists, files) whose files are <<name, content>> *)
(* pairs, and Python's None is the tagged record None.                     *)
(***************************************************************************)
EXTENDS Integers, Sequences, FiniteSets, TLC

\* ------------------------------------------------------------- bounds
\* The iteration counter is unbounded in the code; the model stops counting here.
MaxIteration == 3

\* ------------------------------------------------------------- values
\* main(): port_start = 5000
port_start == 5000

\* Python's None, and a str value
None == [tag |-> "None", s |-> <<>>]
Str(s) == [tag |-> "str", s |-> s]

\* Python truthiness of an optional string (`if command:`, `not retry`)
Truthy(v) == v.tag = "str" /\ Len(v.s) > 0

\* str.lower() on the characters the model uses
LowerChar(c) ==
    CASE c = "Y" -> "y"
      [] c = "E" -> "e"
      [] c = "S" -> "s"
      [] c = "N" -> "n"
      [] c = "O" -> "o"
      [] OTHER -> c

Lower(s) == [i \in 1..Len(s) |-> LowerChar(s[i])]

\* Python's `sub in s` on strings
Contains(sub, s) ==
    \E i \in 1..(Len(s) - Len(sub) + 1) : SubSeq(s, i, i + Len(sub) - 1) = sub

\* str.strip(): leading and trailing whitespace removed
IsSpace(c) == c \in {" ", "\n"}

RECURSIVE LStrip(_)
LStrip(s) == IF s # <<>> /\ IsSpace(Head(s)) THEN LStrip(Tail(s)) ELSE s

RECURSIVE RStrip(_)
RStrip(s) ==
    IF s # <<>> /\ IsSpace(s[Len(s)]) THEN RStrip(SubSeq(s, 1, Len(s) - 1)) ELSE s

Strip(s) == RStrip(LStrip(s))

\* What get_voice_command can return: None (nothing recognised) or the text heard
Utterances ==
    { None,
      Str(<<>>),
      Str(<<"y", "e", "s">>),
      Str(<<"Y", "e", "s">>),
      Str(<<"n", "o">>),
      Str(<<"o", "k">>),
      Str(<<"y", "e", "s", " ", "n", "o">>) }

\* The commands get_voice_command can return at the top of the loop
Commands == {None, Str(<<>>), Str(<<"t", "o", "k", "o">>)}

\* What the chat completion can yield: an exception, or a message whose content is
\* None or a text
GeneratorOutcomes ==
    { [raised |-> TRUE, content |-> None],
      [raised |-> FALSE, content |-> None],
      [raised |-> FALSE, content |-> Str(<<>>)],
      [raised |-> FALSE, content |-> Str(<<" ">>)],
      [raised |-> FALSE, content |-> Str(<<"a">>)],
      [raised |-> FALSE, content |-> Str(<<"a", "b">>)] }

\* generate_website's result: None, or the dict {'html': content}
NoSections == [tag |-> "None", html |-> None]
Sections(content) == [tag |-> "dict", html |-> content]

generate_website(outcome) ==
    IF outcome.raised THEN NoSections ELSE Sections(outcome.content)

\* ------------------------------------------------------------- names and ports
DigitChars == <<"0", "1", "2", "3", "4", "5", "6", "7", "8", "9">>

\* str(int) of the f-string
RECURSIVE Decimal(_)
Decimal(n) ==
    IF n < 10 THEN <<DigitChars[n + 1]>>
    ELSE Decimal(n \div 10) \o <<DigitChars[(n % 10) + 1]>>

\* A variant that leaves the number out of the name
SiteFolderShared(iteration) == <<"generated_site_">>

\* f"generated_site_{iteration}"
SiteFolder(iteration) == <<"generated_site_">> \o Decimal(iteration)

\* A variant that serves every iteration on the base port
PortFixed(iteration) == port_start

\* port = port_start + iteration - 1
Port(iteration) == port_start + iteration - 1

Folders == {SiteFolder(i) : i \in 1..MaxIteration}

\* ------------------------------------------------------------- the filesystem
NoDir == [exists |-> FALSE, files |-> {}]
Dir(files) == [exists |-> TRUE, files |-> files]
IndexOnly(text) == Dir({<<"index.html", text>>})

\* The filesystem maps a path to the directory there; a path it does not know has none
DirAt(disk, folder) == IF folder \in DOMAIN disk THEN disk[folder] ELSE NoDir

PutDir(disk, folder, d) ==
    [f \in DOMAIN disk \cup {folder} |-> IF f = folder THEN d ELSE disk[f]]

\* A directory left in the working directory by an earlier run
LeftoverDir ==
    Dir({<<"index.html", <<"o", "l", "d">>>>, <<"style.css", <<"c">>>>})

\* shutil.rmtree(site_folder): the tree is gone, or an error is raised with any part
\* of it still there
RmtreeOutcomes(d) ==
    {[ok |-> TRUE, dir |-> NoDir]}
        \cup {[ok |-> FALSE, dir |-> Dir(rest)] : rest \in SUBSET d.files}

\* os.makedirs(site_folder)
MakedirsOutcomes(d) ==
    {[ok |-> TRUE, dir |-> Dir({})], [ok |-> FALSE, dir |-> d]}

\* open(f"{site_folder}/index.html", "w"): the file is created empty or truncated
OpenOutcomes(d) ==
    { [ok |-> TRUE,
       dir |-> Dir({f \in d.files : f[1] # "index.html"} \cup {<<"index.html", <<>>>>})],
      [ok |-> FALSE, dir |-> d] }

\* f.write(code_sections['html']): None is a TypeError; a text is written whole, or
\* an I/O error leaves a proper prefix of it
WriteOutcomes(d, html) ==
    LET put(text) ==
            Dir({f \in d.files : f[1] # "index.html"} \cup {<<"index.html", text>>})
    IN  IF html.tag = "None" THEN {[ok |-> FALSE, dir |-> d]}
        ELSE {[ok |-> TRUE, dir |-> put(html.s)]}
                 \cup {[ok |-> FALSE, dir |-> put(SubSeq(html.s, 1, k))] :
                          k \in 0..(Len(html.s) - 1)}

\* A variant that writes into whatever directory is there
save_website_files_merge(code_sections, iteration, d) ==
    IF code_sections.tag = "None"
    THEN {[success |-> FALSE, site_folder |-> None, dir |-> d]}
    ELSE LET opened == OpenOutcomes(Dir(d.files))
             failed(S) ==
                 {[success |-> FALSE, site_folder |-> None, dir |-> r.dir] :
                     r \in {x \in S : ~x.ok}}
             written ==
                 UNION {WriteOutcomes(r.dir, code_sections.html) :
                           r \in {x \in opened : x.ok}}
         IN  failed(opened) \cup failed(written)
                 \cup {[success |-> TRUE, site_folder |-> Str(SiteFolder(iteration)),
                        dir |-> r.dir] : r \in {x \in written : x.ok}}

\* A variant that clears the directory before it looks at code_sections
save_website_files_eager(code_sections, iteration, d) ==
    IF code_sections.tag = "None"
    THEN {[success |-> FALSE, site_folder |-> None, dir |-> NoDir]}
    ELSE save_website_files_merge(code_sections, iteration, NoDir)

\* save_website_files(code_sections, iteration) run on the directory d found at
\* site_folder: every (success, site_folder) it can return with the directory it leaves
save_website_files(code_sections, iteration, d) ==
    IF code_sections.tag = "None"
    THEN {[success |-> FALSE, site_folder |-> None, dir |-> d]}
    ELSE LET removed == IF d.exists THEN RmtreeOutcomes(d) ELSE {[ok |-> TRUE, dir |-> d]}
             made == UNION {MakedirsOutcomes(r.dir) : r \in {x \in removed : x.ok}}
             opened == UNION {OpenOutcomes(r.dir) : r \in {x \in made : x.ok}}
             written ==
                 UNION {WriteOutcomes(r.dir, code_sections.html) :
                           r \in {x \in opened : x.ok}}
             failed(S) ==
                 {[success |-> FALSE, site_folder |-> None, dir |-> r.dir] :
                     r \in {x \in S : ~x.ok}}
         IN  failed(removed) \cup failed(made) \cup failed(opened) \cup failed(written)
                 \cup {[success |-> TRUE, site_folder |-> Str(SiteFolder(iteration)),
                        dir |-> r.dir] : r \in {x \in written : x.ok}}

\* ------------------------------------------------------------- the section parser
\* The longest input of parse_code_sections the model draws, in chunks
MaxChunks == 4

\* str.upper() on the pieces of text the parser's inputs are made of
UpperChar(c) ==
    CASE c = "a" -> "A"
      [] c = "b" -> "B"
      [] c = "---css---" -> "---CSS---"
      [] OTHER -> c

Upper(s) == [i \in 1..Len(s) |-> UpperChar(s[i])]

\* str.split('\n')
RECURSIVE SplitLines(_)
SplitLines(s) ==
    IF \A i \in 1..Len(s) : s[i] # "\n" THEN <<s>>
    ELSE LET cut == CHOOSE i \in 1..Len(s) :
                        s[i] = "\n" /\ \A j \in 1..(i - 1) : s[j] # "\n"
         IN  <<SubSeq(s, 1, cut - 1)>> \o SplitLines(SubSeq(s, cut + 1, Len(s)))

SectionKeys == <<"html", "css", "js">>
NoSectionText == [html |-> <<>>, css |-> <<>>, js |-> <<>>]

\* The branch of the if/elif chain a (stripped) line takes
LineKind(line) ==
    LET up == Upper(line)
    IN  IF Contains(<<"---HTML---">>, up) THEN "html"
        ELSE IF Contains(<<"---CSS---">>, up) THEN "css"
        ELSE IF Contains(<<"---JS---">>, up) THEN "js"
        ELSE IF Contains(<<"---END---">>, up) THEN "end"
        ELSE "text"

\* A variant whose terminator branch goes on to the next line
RECURSIVE ScanLinesPastEnd(_, _, _)
ScanLinesPastEnd(lines, current_section, sections) ==
    IF lines = <<>> THEN sections
    ELSE LET line == Strip(Head(lines))
             kind == LineKind(line)
         IN  IF kind \in {"html", "css", "js"}
             THEN ScanLinesPastEnd(Tail(lines), kind, sections)
             ELSE IF kind = "end"
             THEN ScanLinesPastEnd(Tail(lines), current_section, sections)
             ELSE IF current_section # "none" /\ line # <<>>
             THEN ScanLinesPastEnd(Tail(lines), current_section,
                      [sections EXCEPT ![current_section] = @ \o line \o <<"\n">>])
             ELSE ScanLinesPastEnd(Tail(lines), current_section, sections)

\* `for line in lines:` with current_section and sections as they stand
RECURSIVE ScanLines(_, _, _)
ScanLines(lines, current_section, sections) ==
    IF lines = <<>> THEN sections
    ELSE LET line == Strip(Head(lines))
             kind == LineKind(line)
         IN  IF kind \in {"html", "css", "js"}
             THEN ScanLines(Tail(lines), kind, sections)
             ELSE IF kind = "end"
             THEN sections
             ELSE IF current_section # "none" /\ line # <<>>
             THEN ScanLines(Tail(lines), current_section,
                      [sections EXCEPT ![current_section] = @ \o line \o <<"\n">>])
             ELSE ScanLines(Tail(lines), current_section, sections)

\* A variant that validates the html section alone
MissingSectionsHtmlOnly(stripped) ==
    SelectSeq(<<"html">>, LAMBDA k : stripped[k] = <<>>)

\* missing = [k for k, v in sections.items() if not v]
MissingSections(stripped) ==
    SelectSeq(SectionKeys, LAMBDA k : stripped[k] = <<>>)

\* parse_code_sections(code_text): the sections as they stand after the final strip,
\* whether they are returned (ok) or None is, and the names the error message lists
parse_code_sections(text) ==
    LET scanned == ScanLines(SplitLines(Strip(text)), "none", NoSectionText)
        stripped == [k \in {"html", "css", "js"} |-> Strip(scanned[k])]
        missing == MissingSections(stripped)
    IN  [ok |-> missing = <<>>, sections |-> stripped, missing |-> missing]

\* The parser's inputs are built from these runs of lines: a marker line alone or
\* followed by a line of content, a terminator line, a line of content (plain or
\* indented), a blank line, and a sentence that mentions a marker
InputChunks ==
    { << <<"---HTML---">> >>,
      << <<"---CSS---">> >>,
      << <<"---JS---">> >>,
      << <<"---HTML---">>, <<"a">> >>,
      << <<"---CSS---">>, <<"a">> >>,
      << <<"---JS---">>, <<"a">> >>,
      << <<"---END---">> >>,
      << <<"a">> >>,
      << <<" ", "b">> >>,
      << <<>> >>,
      << <<"a", " ", "---css---">> >> }

\* The lines of a sequence of chunks, in order
RECURSIVE ChunkLines(_)
ChunkLines(chunks) ==
    IF chunks = <<>> THEN <<>> ELSE Head(chunks) \o ChunkLines(Tail(chunks))

\* '\n'.join(lines)
RECURSIVE JoinLines(_)
JoinLines(lines) ==
    IF lines = <<>> THEN <<>>
    ELSE IF Len(lines) = 1 THEN lines[1]
    ELSE lines[1] \o <<"\n">> \o JoinLines(Tail(lines))

\* ------------------------------------------------------------- the Flask app
\* The bodies serve_website returns when index.html cannot be sent
MsgNotGenerated == "Website not generated yet. Please try generating one first."
MsgServingError == "Error serving website"

\* The paths a browser asks the app for
RequestPaths == {<<"/">>, <<"/", "a">>, <<"/", "index.html">>}

NoResponse == [path |-> <<>>, kind |-> "none", body |-> <<>>]

\* serve_website(): index.html of site_folder, or the body of the except branch
\* taken when it cannot be sent (which exception is raised is the library's choice)
serve_website(path, d) ==
    LET index == {f \in d.files : f[1] = "index.html"}
    IN  IF d.exists /\ index # {}
        THEN {[path |-> path, kind |-> "document", body |-> f[2]] : f \in index}
        ELSE { [path |-> path, kind |-> "fallback", body |-> <<MsgNotGenerated>>],
               [path |-> path, kind |-> "error", body |-> <<MsgServingError>>] }

\* The app of create_flask_app(site_folder) on a request: '/' is its only route, and
\* a path with no route gets the framework's 404 page
HandleRequest(path, d) ==
    IF path = <<"/">> THEN serve_website(path, d)
    ELSE {[path |-> path, kind |-> "notfound", body |-> <<"404 Not Found">>]}

\* ------------------------------------------------------------- state
VARIABLES
    pc,             \* where main() is
    iteration,      \* main(): iteration
    command,        \* main(): command
    code_sections,  \* main(): code_sections
    success,        \* main(): success
    site_folder,    \* main(): site_folder
    port,           \* main(): port
    retry,          \* main(): retry
    fs,             \* the generated_site_* directories of the working directory
    serving,        \* app.run's serving loop is answering requests
    said,           \* the last line main() typed on the terminal
    hostLog,        \* every app.run call so far: (iteration, port, folder)
    firstArtifact,  \* the first document materialized under the current iteration
    response,       \* the running app's answer to the last request it got
    served,         \* the iterations whose serving loop has returned without error
    code_text,      \* parse_code_sections(): code_text
    parsed          \* parse_code_sections(): what the call made of code_text

mainVars ==
    <<pc, iteration, command, code_sections, success, site_folder, port, retry, fs,
      serving, said, hostLog, firstArtifact, response, served>>

parseVars == <<code_text, parsed>>

vars == <<mainVars, parseVars>>

\* No call of parse_code_sections has been made
NotParsed == [called |-> FALSE, ok |-> FALSE, sections |-> NoSectionText, missing |-> <<>>]

MsgInit == "Initializing Jarvis..."
MsgProcessing == "Processing your command..."
MsgLaunching == "Website generated successfully. Launching preview..."
MsgServerError == "Error running server"
MsgAnother == "Would you like to generate another website? (Say 'yes' or 'no')"
MsgTryAgain == "Would you like to try again? (Say 'yes' or 'no')"
MsgGoodbye == "Thank you for using the website generator. Goodbye!"

RetryPrompts == {"RetryPromptFailed", "RetryPromptNoCommand"}
Prompts == {"ContinuePrompt"} \cup RetryPrompts

\* Locals not yet assigned are None (0 for port); a site directory is absent or is
\* one an earlier run left behind.
Init ==
    /\ pc = "AwaitingCommand"
    /\ iteration = 1
    /\ command = None
    /\ code_sections = NoSections
    /\ success = FALSE
    /\ site_folder = None
    /\ port = 0
    /\ retry = None
    /\ fs \in [Folders -> {NoDir, LeftoverDir}]
    /\ serving = FALSE
    /\ said = MsgInit
    /\ hostLog = {}
    /\ firstArtifact = None
    /\ response = NoResponse
    /\ served = {}
    /\ code_text = <<>>
    /\ parsed = NotParsed

\* ------------------------------------------------------------- control flow of main()
\* `if command:` ... `else:` (the try-again prompt for a missing command)
AfterCapture(heard) ==
    IF Truthy(heard) THEN "Processing" ELSE "RetryPromptNoCommand"

AfterSaveSilentRetry(ok) == IF ok THEN "Hosting" ELSE "AwaitingCommand"

\* `if success:` ... `else:` (the try-again prompt for a failed generation or save)
AfterSave(ok) == IF ok THEN "Hosting" ELSE "RetryPromptFailed"

AfterHostErrorEnds == "SessionEnd"

\* `except Exception as e: ... continue`
AfterHostError == "AwaitingCommand"

\* `if retry and 'yes' in retry.lower():`
SaidYes(answer) == Truthy(answer) /\ Contains(<<"y", "e", "s">>, Lower(answer.s))

\* `if not retry or 'no' in retry.lower():`
SaidNo(answer) == ~Truthy(answer) \/ Contains(<<"n", "o">>, Lower(answer.s))

IterationKept(i) == i

\* `iteration += 1`
NextIteration(i) == i + 1

\* ------------------------------------------------------------- actions
\* command = get_voice_command(); if command: ... else: the try-again prompt
Capture ==
    /\ pc = "AwaitingCommand"
    /\ \E heard \in Commands :
          /\ command' = heard
          /\ pc' = AfterCapture(heard)
          /\ said' = IF Truthy(heard) THEN MsgProcessing ELSE MsgTryAgain
    /\ UNCHANGED <<response, served>>
    /\ UNCHANGED parseVars
    /\ UNCHANGED <<iteration, code_sections, success, site_folder, port, retry, fs,
                   serving, hostLog, firstArtifact>>

\* code_sections = generate_website(command);
\* success, site_folder = save_website_files(code_sections, iteration);
\* on success the port is computed and the preview announced and opened
Process ==
    /\ pc = "Processing"
    /\ \E outcome \in GeneratorOutcomes :
          LET sections == generate_website(outcome)
              target == SiteFolder(iteration)
          IN  \E r \in save_website_files(sections, iteration, DirAt(fs, target)) :
                 /\ code_sections' = sections
                 /\ success' = r.success
                 /\ site_folder' = r.site_folder
                 /\ fs' = PutDir(fs, target, r.dir)
                 /\ port' = IF r.success THEN Port(iteration) ELSE port
                 /\ said' = IF r.success THEN MsgLaunching ELSE MsgTryAgain
                 /\ pc' = AfterSave(r.success)
                 /\ firstArtifact' =
                        IF r.success /\ firstArtifact = None THEN sections.html
                        ELSE firstArtifact
    /\ UNCHANGED <<response, served>>
    /\ UNCHANGED parseVars
    /\ UNCHANGED <<iteration, command, retry, serving, hostLog>>

\* app.run(debug=False, port=port): the listener starts, or an exception is caught
Host ==
    /\ pc = "Hosting"
    /\ hostLog' = hostLog \cup
           {[iteration |-> iteration, port |-> port, folder |-> site_folder.s]}
    /\ \/ /\ serving' = TRUE
          /\ pc' = "Serving"
          /\ said' = said
       \/ /\ serving' = FALSE
          /\ pc' = AfterHostError
          /\ said' = MsgServerError
    /\ UNCHANGED <<response, served>>
    /\ UNCHANGED parseVars
    /\ UNCHANGED <<iteration, command, code_sections, success, site_folder, port, retry,
                   fs, firstArtifact>>

\* a request reaches the app while app.run is serving
Request ==
    /\ pc = "Serving"
    /\ \E path \in RequestPaths :
          \E r \in HandleRequest(path, DirAt(fs, site_folder.s)) : response' = r
    /\ UNCHANGED <<pc, iteration, command, code_sections, success, site_folder, port,
                   retry, fs, serving, said, hostLog, firstArtifact, served>>
    /\ UNCHANGED parseVars

\* A variant in which the prompt comes up with the site still served
ServeReturnsStillServing ==
    /\ pc = "Serving"
    /\ serving' = TRUE
    /\ pc' = "ContinuePrompt"
    /\ said' = MsgAnother
    /\ response' = NoResponse
    /\ served' = served \cup {iteration}
    /\ UNCHANGED parseVars
    /\ UNCHANGED <<iteration, command, code_sections, success, site_folder, port, retry,
                   fs, hostLog, firstArtifact>>

\* app.run returns once the serving loop has been stopped from outside; main() then
\* asks whether to generate another website
ServeReturns ==
    /\ pc = "Serving"
    /\ serving' = FALSE
    /\ pc' = "ContinuePrompt"
    /\ said' = MsgAnother
    /\ response' = NoResponse
    /\ served' = served \cup {iteration}
    /\ UNCHANGED parseVars
    /\ UNCHANGED <<iteration, command, code_sections, success, site_folder, port, retry,
                   fs, hostLog, firstArtifact>>

\* the serving loop raises an Exception, which main() catches
ServeRaises ==
    /\ pc = "Serving"
    /\ serving' = FALSE
    /\ pc' = AfterHostError
    /\ said' = MsgServerError
    /\ response' = NoResponse
    /\ UNCHANGED served
    /\ UNCHANGED parseVars
    /\ UNCHANGED <<iteration, command, code_sections, success, site_folder, port, retry,
                   fs, hostLog, firstArtifact>>

\* the process is terminated while app.run blocks (nothing in main() catches that)
Terminate ==
    /\ pc = "Serving"
    /\ serving' = FALSE
    /\ pc' = "Terminated"
    /\ response' = NoResponse
    /\ UNCHANGED served
    /\ UNCHANGED parseVars
    /\ UNCHANGED <<iteration, command, code_sections, success, site_folder, port, retry,
                   fs, said, hostLog, firstArtifact>>

\* retry = get_voice_command() after a served iteration
AnswerContinue ==
    /\ pc = "ContinuePrompt"
    /\ \E answer \in Utterances :
          /\ retry' = answer
          /\ IF SaidYes(answer)
             THEN /\ iteration < MaxIteration
                  /\ iteration' = NextIteration(iteration)
                  /\ pc' = "AwaitingCommand"
                  /\ said' = said
                  /\ firstArtifact' = None
             ELSE /\ iteration' = iteration
                  /\ pc' = "SessionEnd"
                  /\ said' = MsgGoodbye
                  /\ firstArtifact' = firstArtifact
    /\ UNCHANGED <<response, served>>
    /\ UNCHANGED parseVars
    /\ UNCHANGED <<command, code_sections, success, site_folder, port, fs, serving,
                   hostLog>>

\* A variant that counts a retried iteration as a new one
AnswerRetryCounts(prompt) ==
    /\ pc = prompt
    /\ \E answer \in Utterances :
          /\ retry' = answer
          /\ IF SaidNo(answer)
             THEN pc' = "SessionEnd" /\ said' = MsgGoodbye /\ iteration' = iteration
             ELSE /\ iteration < MaxIteration
                  /\ iteration' = iteration + 1
                  /\ pc' = "AwaitingCommand"
                  /\ said' = said
    /\ UNCHANGED <<response, served>>
    /\ UNCHANGED parseVars
    /\ UNCHANGED <<command, code_sections, success, site_folder, port, fs,
                   serving, hostLog, firstArtifact>>

\* the answer at a try-again prompt: leave the loop, or fall through to its top
AnswerRetry(prompt) ==
    /\ pc = prompt
    /\ \E answer \in Utterances :
          /\ retry' = answer
          /\ IF SaidNo(answer)
             THEN pc' = "SessionEnd" /\ said' = MsgGoodbye
             ELSE pc' = "AwaitingCommand" /\ said' = said
    /\ UNCHANGED <<response, served>>
    /\ UNCHANGED parseVars
    /\ UNCHANGED <<iteration, command, code_sections, success, site_folder, port, fs,
                   serving, hostLog, firstArtifact>>

\* retry = get_voice_command() after a failed generation or save
AnswerRetryFailed == AnswerRetry("RetryPromptFailed")

\* retry = get_voice_command() after a missing command
AnswerRetryNoCommand == AnswerRetry("RetryPromptNoCommand")

Next ==
    \/ Capture
    \/ Process
    \/ Host
    \/ Request
    \/ ServeReturns
    \/ ServeRaises
    \/ Terminate
    \/ AnswerContinue
    \/ AnswerRetryFailed
    \/ AnswerRetryNoCommand

Spec == Init /\ [][Next]_vars

\* ------------------------------------------------------------- the parser on its own
\* main() never calls parse_code_sections; it is checked as a function of its input
InitParse ==
    /\ pc = "AwaitingCommand"
    /\ iteration = 1
    /\ command = None
    /\ code_sections = NoSections
    /\ success = FALSE
    /\ site_folder = None
    /\ port = 0
    /\ retry = None
    /\ fs = [f \in Folders |-> NoDir]
    /\ serving = FALSE
    /\ said = MsgInit
    /\ hostLog = {}
    /\ firstArtifact = None
    /\ response = NoResponse
    /\ served = {}
    /\ \E n \in 0..MaxChunks :
          \E chunks \in [1..n -> InputChunks] : code_text = JoinLines(ChunkLines(chunks))
    /\ parsed = NotParsed

\* parse_code_sections(code_text)
ParseCall ==
    /\ ~parsed.called
    /\ parsed' = [called |-> TRUE] @@ parse_code_sections(code_text)
    /\ UNCHANGED code_text
    /\ UNCHANGED mainVars

NextParse == ParseCall

SpecParse == InitParse /\ [][NextParse]_vars

\* ------------------------------------------------------------- claims
\* An affirmative answer: something was heard, it contains 'yes' and does not
\* contain 'no' (case ignored)
Affirmative(answer) ==
    /\ Truthy(answer)
    /\ Contains(<<"y", "e", "s">>, Lower(answer.s))
    /\ ~Contains(<<"n", "o">>, Lower(answer.s))

\* C1 as stated: at every continue prompt (after a served iteration and at both
\* try-again prompts) an affirmative answer adds exactly one to the iteration
\* counter and returns main() to command capture.
C1_EveryPromptIncrements ==
    [][(pc \in Prompts /\ Affirmative(retry'))
          => (iteration' = iteration + 1 /\ pc' = "AwaitingCommand")]_vars

\* C1 amended: at the prompt after a served iteration an affirmative answer adds
\* exactly one to the counter and returns to command capture; at the two try-again
\* prompts it returns to command capture and leaves the counter as it is.
C1_IncrementOnlyAfterServed ==
    [][/\ (pc = "ContinuePrompt" /\ Affirmative(retry'))
            => (iteration' = iteration + 1 /\ pc' = "AwaitingCommand")
       /\ (pc \in RetryPrompts /\ Affirmative(retry'))
            => (iteration' = iteration /\ pc' = "AwaitingCommand")]_vars

\* An affirmative answer at the prompt after a served iteration has been taken
C1_Witness ==
    /\ pc = "AwaitingCommand"
    /\ said = MsgAnother
    /\ Affirmative(retry)
    /\ iteration = 2

\* C2: at every continue prompt an answer that is not affirmative (nothing heard,
\* neither 'yes' nor 'no', or containing 'no') ends the session.
C2_NonAffirmativeEnds ==
    [][(pc \in Prompts /\ ~Affirmative(retry')) => pc' = "SessionEnd"]_vars

\* C3: when app.run raises, the next step of main() is a continue prompt.
C3_HostFailurePrompts ==
    [][(pc \in {"Hosting", "Serving"} /\ said' = MsgServerError)
          => pc' \in Prompts]_vars

\* C4: when command capture yields no text, or the generator call or the
\* materialization fails, the next step of main() is the try-again prompt: nothing
\* is hosted for the attempt, the counter is unchanged, and the session neither
\* ends nor captures another command first.
C4_FailuresPrompt ==
    [][/\ (pc = "AwaitingCommand" /\ ~Truthy(command'))
            => /\ pc' = "RetryPromptNoCommand"
               /\ hostLog' = hostLog /\ ~serving' /\ iteration' = iteration
       /\ (pc = "Processing" /\ (code_sections'.tag = "None" \/ ~success'))
            => /\ pc' = "RetryPromptFailed"
               /\ hostLog' = hostLog /\ ~serving' /\ iteration' = iteration]_vars

\* The generator call failed and main() is at the try-again prompt
C4_Witness ==
    /\ pc = "RetryPromptFailed"
    /\ code_sections.tag = "None"
    /\ Truthy(command)

\* C5: every hosting attempt serves generated_site_<iteration> on port
\* 5000 + iteration - 1, so attempts under different iteration numbers differ in
\* port and in directory.
C5_PortAndFolderPerIteration ==
    /\ \A h \in hostLog :
          /\ h.port = 5000 + h.iteration - 1
          /\ h.folder = <<"generated_site_">> \o Decimal(h.iteration)
    /\ \A a, b \in hostLog :
          a.iteration # b.iteration => (a.port # b.port /\ a.folder # b.folder)

\* Sites have been hosted under two different iteration numbers
C5_Witness == \E a, b \in hostLog : a.iteration # b.iteration

\* C6: after a second successful save under the same iteration number with a
\* different artifact, the site directory holds exactly the second artifact's
\* index.html.
C6_SecondSaveReplaces ==
    (/\ pc = "Hosting"
     /\ firstArtifact.tag = "str"
     /\ firstArtifact # code_sections.html)
        => DirAt(fs, site_folder.s) = IndexOnly(code_sections.html.s)

\* A second, different artifact has just been saved under the same number
C6_Witness ==
    /\ pc = "Hosting"
    /\ success
    /\ firstArtifact.tag = "str"
    /\ firstArtifact # code_sections.html

\* C7: a failed save leaves the target directory as it was or holding the complete
\* new document.
C7_ReplaceOrFail ==
    [][(pc = "Processing" /\ ~success')
          => LET target == SiteFolder(iteration)
             IN  \/ DirAt(fs', target) = DirAt(fs, target)
                 \/ /\ code_sections'.tag = "dict"
                    /\ code_sections'.html.tag = "str"
                    /\ DirAt(fs', target) = IndexOnly(code_sections'.html.s)]_vars

\* C8: once the counter is past N, no step changes the directory of iteration N.
C8_EarlierSitesUntouched ==
    [][/\ \A n \in 1..MaxIteration :
             n < iteration => DirAt(fs', SiteFolder(n)) = DirAt(fs, SiteFolder(n))
       /\ \A h \in hostLog :
             h.iteration < iteration => DirAt(fs', h.folder) = DirAt(fs, h.folder)]_vars

\* A later iteration has failed at materialization, leaving its own directory
\* half-built
C8_Witness ==
    /\ iteration > 1
    /\ pc = "RetryPromptFailed"
    /\ code_sections.tag = "dict"
    /\ DirAt(fs, SiteFolder(iteration)) = Dir({})

\* C9: a response that is empty after trimming is rejected (the save does not
\* succeed, nothing is hosted, main() goes to the try-again prompt); one that is
\* not empty after trimming is materialized as it is.
C9_EmptyResponseRejected ==
    [][(pc = "Processing" /\ code_sections'.tag = "dict"
            /\ code_sections'.html.tag = "str")
          => IF Strip(code_sections'.html.s) = <<>>
             THEN pc' = "RetryPromptFailed" /\ ~success'
             ELSE pc' = "Hosting"
                     => DirAt(fs', SiteFolder(iteration))
                            = IndexOnly(code_sections'.html.s)]_vars

\* C10: while the site is being served, main() can step to the continue prompt
\* with the site still served.
C10_PromptWhileServing ==
    pc = "Serving" => ENABLED (Next /\ pc' = "ContinuePrompt" /\ serving')

\* ------------------------------------------------------------- claims on the app and the session
\* C14: the app answers a request for the root path with the site's index.html and
\* a request for any other path with the fixed 'not generated' body.
C14_RootDocumentElseFallback ==
    (pc = "Serving" /\ response.kind # "none")
        => IF response.path = <<"/">>
           THEN /\ response.kind = "document"
                /\ <<"index.html", response.body>> \in DirAt(fs, site_folder.s).files
           ELSE /\ response.kind = "fallback"
                /\ response.body = <<MsgNotGenerated>>

\* C15: the session ends only on the answer at a continue prompt, and once it has
\* ended nothing more happens: no capture, generation, save, hosting or change of
\* the counter.
C15_EndsOnlyAtPrompt ==
    [][/\ (pc' = "SessionEnd" /\ pc # "SessionEnd")
            => (pc \in Prompts /\ said' = MsgGoodbye)
       /\ pc = "SessionEnd"
            => /\ pc' = "SessionEnd"
               /\ iteration' = iteration /\ fs' = fs /\ hostLog' = hostLog
               /\ command' = command /\ code_sections' = code_sections
               /\ ~serving']_vars

\* The session has ended on a 'no' after a served iteration
C15_Witness ==
    /\ pc = "SessionEnd"
    /\ said = MsgGoodbye
    /\ retry = Str(<<"n", "o">>)
    /\ iteration \in served

\* C16: a site is served only while main() is inside app.run, so capture,
\* generation, save and the next hosting attempt begin only once the serving loop
\* has returned; while the loop runs the counter and every site directory stay as
\* they are.
C16_OneSiteAtATime ==
    [][/\ serving' => pc' = "Serving"
       /\ pc' \in {"AwaitingCommand", "Processing", "Hosting"} => ~serving'
       /\ (serving /\ serving') => (iteration' = iteration /\ fs' = fs)]_vars

\* A request has been answered by the site of the second iteration while it is served
C16_Witness ==
    /\ pc = "Serving"
    /\ serving
    /\ iteration = 2
    /\ response.kind = "document"

\* An answer that contains 'yes' (case ignored)
ContainsYes(answer) == Truthy(answer) /\ Contains(<<"y", "e", "s">>, Lower(answer.s))

C18_FailedGenerationTouchesNothing ==
    [][(pc = "Processing" /\ code_sections'.tag = "None")
          => (~success' /\ site_folder' = None /\ fs' = fs)]_vars

\* The generator call has failed with the directory of an earlier attempt under the
\* same number still in place
C18_Witness ==
    /\ pc = "RetryPromptFailed"
    /\ code_sections.tag = "None"
    /\ firstArtifact.tag = "str"
    /\ DirAt(fs, SiteFolder(iteration)) = IndexOnly(firstArtifact.s)

\* ------------------------------------------------------------- claims on the parser
\* What the claims say of a text, stated on its lines without the parser's loop.
RawLines == SplitLines(code_text)

MarkerText(k) ==
    CASE k = "html" -> "---HTML---"
      [] k = "css" -> "---CSS---"
      [] k = "js" -> "---JS---"
      [] k = "end" -> "---END---"

\* The marker of section k occurs somewhere in the text, in either case
MarkerPresent(k) == Contains(<<MarkerText(k)>>, Upper(code_text))

\* A marker line in the strict sense: the line is the marker and nothing else
StrictKind(line) ==
    LET up == Upper(line)
    IN  IF \E k \in {"html", "css", "js", "end"} : up = <<MarkerText(k)>>
        THEN CHOOSE k \in {"html", "css", "js", "end"} : up = <<MarkerText(k)>>
        ELSE "text"

\* The first terminator line, or one past the last line
RefFirstEnd(Kind(_), lines) ==
    LET ends == {i \in 1..Len(lines) : Kind(Strip(lines[i])) = "end"}
    IN  IF ends = {} THEN Len(lines) + 1
        ELSE CHOOSE i \in ends : \A j \in ends : i <= j

\* The section whose marker is the last one above line i, or "none"
RefOwner(Kind(_), lines, i) ==
    LET above == {j \in 1..(i - 1) : Kind(Strip(lines[j])) \in {"html", "css", "js"}}
    IN  IF above = {} THEN "none"
        ELSE Kind(Strip(lines[CHOOSE j \in above : \A m \in above : m <= j]))

\* The non-blank lines of section k: below its marker, above the first terminator
RefContent(Kind(_), lines, k) ==
    {i \in 1..(RefFirstEnd(Kind, lines) - 1) :
        /\ Kind(Strip(lines[i])) = "text"
        /\ Strip(lines[i]) # <<>>
        /\ RefOwner(Kind, lines, i) = k}

\* The lines at the indices S, stripped, in order, one per line
RECURSIVE RefJoin(_, _)
RefJoin(lines, S) ==
    IF S = {} THEN <<>>
    ELSE LET m == CHOOSE i \in S : \A j \in S : i <= j
         IN  IF S = {m} THEN Strip(lines[m])
             ELSE Strip(lines[m]) \o <<"\n">> \o RefJoin(lines, S \ {m})

RefSection(Kind(_), lines, k) == RefJoin(lines, RefContent(Kind, lines, k))

Named(seq) == {seq[i] : i \in 1..Len(seq)}

\* C11 as stated: parse_code_sections fails exactly when a section marker is absent
\* from the text, and the failure names exactly the sections whose markers are
\* absent.
C11_FailsIffMarkerAbsent ==
    parsed.called
        => /\ ~parsed.ok <=> (\E k \in {"html", "css", "js"} : ~MarkerPresent(k))
           /\ Named(parsed.missing) = {k \in {"html", "css", "js"} : ~MarkerPresent(k)}

\* C11 amended: parse_code_sections fails exactly when a section is left without
\* content (its marker is absent, or no non-blank line follows the marker before
\* the next marker, the terminator or the end of the text), and the failure names
\* exactly those sections; every section whose marker is absent is among them.
C11_FailsIffSectionEmpty ==
    parsed.called
        => LET empty == {k \in {"html", "css", "js"} :
                            RefContent(LineKind, RawLines, k) = {}}
           IN  /\ ~parsed.ok <=> empty # {}
               /\ Named(parsed.missing) = empty
               /\ \A k \in {"html", "css", "js"} : ~MarkerPresent(k) => k \in empty

\* A parse has failed on a text that holds all three markers
C11_Witness ==
    /\ parsed.called
    /\ ~parsed.ok
    /\ \A k \in {"html", "css", "js"} : MarkerPresent(k)
    /\ Named(parsed.missing) = {"css"}

\* The text from below line i to above the next marker or terminator line, trimmed
RefInnerText(lines, i) ==
    LET below == {j \in (i + 1)..Len(lines) : StrictKind(Strip(lines[j])) # "text"}
        stop == IF below = {} THEN Len(lines) + 1
                ELSE CHOOSE j \in below : \A m \in below : j <= m
    IN  Strip(JoinLines(SubSeq(lines, i + 1, stop - 1)))

\* Each of the three markers is on exactly one line, that line is the marker alone,
\* no other line mentions a marker, and content follows each marker
RefWellFormed(lines) ==
    /\ \A i \in 1..Len(lines) : LineKind(Strip(lines[i])) = StrictKind(Strip(lines[i]))
    /\ \A k \in {"html", "css", "js"} :
          /\ Cardinality({i \in 1..Len(lines) : StrictKind(Strip(lines[i])) = k}) = 1
          /\ \A i \in 1..Len(lines) :
                StrictKind(Strip(lines[i])) = k
                    => /\ i < RefFirstEnd(StrictKind, lines)
                       /\ RefInnerText(lines, i) # <<>>

\* C12: for a text with the three markers, each followed by content, every section
\* is the text between its marker and the next marker, terminator or end of text,
\* trimmed at its two ends only.
C12_SectionsAreInnerText ==
    (parsed.called /\ RefWellFormed(RawLines))
        => /\ parsed.ok
           /\ \A i \in 1..Len(RawLines) :
                 LET k == StrictKind(Strip(RawLines[i]))
                 IN  k \in {"html", "css", "js"}
                        => parsed.sections[k] = RefInnerText(RawLines, i)

\* C13: a line that only mentions a marker inside other text neither opens a
\* section nor ends the scan, and stays in the section it is in: the sections are
\* those of a scan that takes only whole-line markers for markers.
C13_MentionedMarkerIsContent ==
    parsed.called
        => \A k \in {"html", "css", "js"} :
              parsed.sections[k] = RefSection(StrictKind, RawLines, k)

\* C19: text above the first marker is in no section, nothing from the first
\* terminator line on is read, and the content under every occurrence of a marker
\* is joined into its section in order of appearance.
C19_PreambleEndAndRepeats ==
    parsed.called
        => \A k \in {"html", "css", "js"} :
              parsed.sections[k] = RefSection(LineKind, RawLines, k)

\* A parsed text with a line above the first marker, a section that gets content,
\* and a marker with content below a terminator line
C19_Witness ==
    /\ parsed.called
    /\ RefOwner(LineKind, RawLines, 1) = "none"
    /\ LineKind(Strip(RawLines[1])) = "text"
    /\ Strip(RawLines[1]) # <<>>
    /\ parsed.sections["html"] # <<>>
    /\ \E i \in 1..Len(RawLines) :
          /\ i > RefFirstEnd(LineKind, RawLines)
          /\ LineKind(Strip(RawLines[i])) = "css"
          /\ i < Len(RawLines)
    /\ parsed.sections["css"] = <<>>

====
